---- MODULE Spec2Model ----
(***************************************************************************)
(* A model of the geobind data-preparation and threshold-selection code:   *)
(*   geobind/nn/metrics/choose_binary_threshold.py  chooseBinaryThreshold  *)
(*   geobind/mesh/map_point_features_to_mesh.py     wfn,                   *)
(*                                                  mapPointFeaturesToMesh *)
(*   geobind/structure/clean_protein.py             ResidueMutator,        *)
(*                                                  cleanProtein           *)
(*   bin/train_model.py                             the training script    *)
(* Every function is a call frame (a record holding the function's locals  *)
(* under their source names and a program counter pc) stepped by one       *)
(* action per statement group.  Each function has its own specification.   *)
(* Real numbers are exact rationals <<numerator, denominator>>.            *)
(***************************************************************************)
EXTENDS Integers, Sequences, FiniteSets, TLC

VARIABLES cbt, mpf, mut, cp, rn, tm, mono

vars == <<cbt, mpf, mut, cp, rn, tm, mono>>

----------------------------------------------------------------------------
(* Bounds of the model.                                                    *)

\* probabilities are the multiples of 1/ProbDen in [0, 1]
ProbDen == 3
\* at most this many batches in y_gt and probs
MaxBatches == 2
\* n_samples ranges over 1..MaxSamples
MaxSamples == 3
\* at most this many points are mapped onto the mesh
MaxPoints == 2
\* mesh.num_vertices
NumVertices == 3
\* the points lie at the integer coordinates 0..MaxCoord
MaxCoord == 4
\* a chain holds at most this many residues
MaxResidues == 2

----------------------------------------------------------------------------
(* Rational arithmetic: <<n, d>> with d > 0, kept in lowest terms.         *)

Abs(x) == IF x < 0 THEN -x ELSE x

RECURSIVE GCD(_, _)
GCD(a, b) == IF b = 0 THEN a ELSE GCD(b, a % b)

Sign(x) == IF x < 0 THEN -1 ELSE IF x > 0 THEN 1 ELSE 0

\* a zero denominator is a non-finite float: <<1, 0>> is inf, <<-1, 0>> is
\* -inf and <<0, 0>> is nan, as numpy gives for x/0
RNorm(n, d) ==
    IF d = 0 THEN <<Sign(n), 0>>
    ELSE LET s == IF d < 0 THEN -1 ELSE 1
             g == GCD(Abs(n), Abs(d))
         IN  <<(s * n) \div g, (s * d) \div g>>

IsFinite(a) == a[2] # 0

RInt(k) == <<k, 1>>
RAdd(a, b) == RNorm(a[1] * b[2] + b[1] * a[2], a[2] * b[2])
RSub(a, b) == RNorm(a[1] * b[2] - b[1] * a[2], a[2] * b[2])
RMul(a, b) == RNorm(a[1] * b[1], a[2] * b[2])
RDiv(a, b) == RNorm(a[1] * b[2], a[2] * b[1])
RLt(a, b) == a[1] * b[2] < b[1] * a[2]
RLe(a, b) == a[1] * b[2] <= b[1] * a[2]
RZero == RInt(0)
ROne == RInt(1)

RECURSIVE SeqSum(_)
SeqSum(s) == IF s = <<>> THEN RZero ELSE RAdd(Head(s), SeqSum(Tail(s)))

RECURSIVE SeqMax(_)
SeqMax(s) ==
    IF Len(s) = 1 THEN s[1]
    ELSE LET m == SeqMax(Tail(s)) IN IF RLt(s[1], m) THEN m ELSE s[1]

\* the non-empty sequences over S of length at most n
SeqsUpTo(S, n) == UNION {[1..k -> S] : k \in 1..n}

----------------------------------------------------------------------------
(* chooseBinaryThreshold                                                   *)

\* np.linspace(0, 1, num): the num values i/(num-1), i = 0..num-1
linspace01(num) == [i \in 1..num |-> RNorm(i - 1, num - 1)]

\* s[:-1]: drop the last element only
SliceKeepFirst(s) == SubSeq(s, 1, Len(s) - 1)

\* s[1:-1]: drop the first and the last element
SliceInner(s) == SubSeq(s, 2, Len(s) - 1)

\* thresholds = np.linspace(0, 1, n_samples+2)[1:-1]
Thresholds(n_samples) == SliceInner(linspace01(n_samples + 2))

\* p >= t, elementwise
Predict(p, t) == [j \in 1..Len(p) |-> IF RLe(t, p[j]) THEN 1 ELSE 0]

Count(y, pred, yv, pv) == Cardinality({j \in 1..Len(y) : y[j] = yv /\ pred[j] = pv})

\* the metric functions passed as metric_fn
MetricFns == {"accuracy_score", "precision_score"}

metric_fn(name, y, pred) ==
    IF name = "accuracy_score"
    THEN RNorm(Count(y, pred, 1, 1) + Count(y, pred, 0, 0), Len(y))
    ELSE LET tp == Count(y, pred, 1, 1)
             fp == Count(y, pred, 0, 1)
         IN  IF tp + fp = 0 THEN RZero ELSE RNorm(tp, tp + fp)

\* m = lambda t: metric_fn(y, p >= t, **kwargs)
m(name, y, p, t) == metric_fn(name, y, Predict(p, t))

\* np.array(list(map(m, thresholds)))
MapM(name, y, p, thresholds) ==
    [k \in 1..Len(thresholds) |-> m(name, y, p, thresholds[k])]

\* values.mean(axis=0)
MeanAxis0(values) ==
    [k \in 1..Len(values[1]) |->
        RDiv(SeqSum([b \in 1..Len(values) |-> values[b][k]]), RInt(Len(values)))]

\* values.max(axis=0)
MaxAxis0(values) ==
    [k \in 1..Len(values[1]) |-> SeqMax([b \in 1..Len(values) |-> values[b][k]])]

\* a scan that moves on to every element at least as large: the last largest
RECURSIVE ArgMaxScanLast(_, _, _)
ArgMaxScanLast(v, k, best) ==
    IF k > Len(v) THEN best
    ELSE ArgMaxScanLast(v, k + 1, IF RLe(v[best], v[k]) THEN k ELSE best)

\* np.argmax: a left-to-right scan that keeps the first largest element
RECURSIVE ArgMaxScan(_, _, _)
ArgMaxScan(v, k, best) ==
    IF k > Len(v) THEN best
    ELSE ArgMaxScan(v, k + 1, IF RLt(v[best], v[k]) THEN k ELSE best)

argmax(v) == ArgMaxScan(v, 2, 1)

\* np.argmin: a left-to-right scan that keeps the first smallest element
RECURSIVE ArgMinScan(_, _, _)
ArgMinScan(v, k, best) ==
    IF k > Len(v) THEN best
    ELSE ArgMinScan(v, k + 1, IF RLt(v[k], v[best]) THEN k ELSE best)

argmin(v) == ArgMinScan(v, 2, 1)

Labels == {0, 1}
Probs == {RNorm(k, ProbDen) : k \in 0..ProbDen}
\* an array holds one sample
YArrays == {<<l>> : l \in Labels}
PArrays == {<<q>> : q \in Probs}
\* an argument is a bare array or a list of arrays
YArgs == {[isList |-> FALSE, array |-> a, list |-> <<>>] : a \in YArrays}
           \cup {[isList |-> TRUE, array |-> <<>>, list |-> l] :
                    l \in SeqsUpTo(YArrays, MaxBatches)}
PArgs == {[isList |-> FALSE, array |-> a, list |-> <<>>] : a \in PArrays}
           \cup {[isList |-> TRUE, array |-> <<>>, list |-> l] :
                    l \in SeqsUpTo(PArrays, MaxBatches)}
Criteria == {"max", "min"}
Optimize == {"batch_mean", "batch_max"}

NoFrame == [pc |-> "idle"]

\* lines 19-27: sample the thresholds, wrap bare arrays, assert equal lengths
CbtCall ==
    /\ cbt.pc = "idle"
    /\ \E y_arg \in YArgs, p_arg \in PArgs, fn \in MetricFns,
          crit \in Criteria, n \in 1..MaxSamples, opt \in Optimize :
        LET y_gt == IF y_arg.isList THEN y_arg.list ELSE <<y_arg.array>>
            probs == IF p_arg.isList THEN p_arg.list ELSE <<p_arg.array>>
            frame == [pc |-> "evaluate", y_gt |-> y_gt, probs |-> probs,
                      metric_fn |-> fn, metric_criteria |-> crit,
                      n_samples |-> n, optimize |-> opt,
                      thresholds |-> Thresholds(n), values |-> <<>>,
                      batch_values |-> <<>>, i |-> 1, idx |-> 0,
                      ret |-> <<>>, raised |-> ""]
        IN  cbt' = IF Len(y_gt) = Len(probs) THEN frame
                   ELSE [frame EXCEPT !.pc = "error", !.raised = "AssertionError"]
    /\ UNCHANGED <<mpf, mut, cp, rn, tm, mono>>

\* lines 31-34: one iteration of the loop over the batches
CbtEvaluate ==
    /\ cbt.pc = "evaluate"
    /\ cbt.i <= Len(cbt.y_gt)
    /\ LET y == cbt.y_gt[cbt.i]
           p == cbt.probs[cbt.i]
       IN  cbt' = [cbt EXCEPT
                     !.values = Append(@, MapM(cbt.metric_fn, y, p, cbt.thresholds)),
                     !.i = @ + 1]
    /\ UNCHANGED <<mpf, mut, cp, rn, tm, mono>>

\* lines 35-41: reshape to (batches, thresholds) and aggregate over the batches
CbtAggregate ==
    /\ cbt.pc = "evaluate"
    /\ cbt.i > Len(cbt.y_gt)
    /\ cbt' = [cbt EXCEPT
                 !.pc = "choose",
                 !.batch_values = cbt.values,
                 !.values = IF cbt.optimize = "batch_mean" THEN MeanAxis0(cbt.values)
                            ELSE IF cbt.optimize = "batch_max" THEN MaxAxis0(cbt.values)
                            ELSE cbt.values]
    /\ UNCHANGED <<mpf, mut, cp, rn, tm, mono>>

\* lines 44-49: pick the index and return the threshold and the value there
CbtChoose ==
    /\ cbt.pc = "choose"
    /\ LET idx == IF cbt.metric_criteria = "max" THEN argmax(cbt.values)
                  ELSE argmin(cbt.values)
       IN  cbt' = [cbt EXCEPT
                     !.pc = "done",
                     !.idx = idx,
                     !.ret = <<cbt.thresholds[idx], cbt.values[idx]>>]
    /\ UNCHANGED <<mpf, mut, cp, rn, tm, mono>>

NextThreshold == CbtCall \/ CbtEvaluate \/ CbtAggregate \/ CbtChoose

Init ==
    /\ cbt = NoFrame
    /\ mpf = NoFrame
    /\ mut = NoFrame
    /\ cp = NoFrame
    /\ rn = NoFrame
    /\ tm = NoFrame
    /\ mono = NoFrame

SpecThreshold == Init /\ [][NextThreshold]_vars

\* the metric of batch b at the candidate k/(n_samples+1)
CbtBatchValue(b, k) ==
    metric_fn(cbt.metric_fn, cbt.y_gt[b],
              [j \in 1..Len(cbt.probs[b]) |->
                 IF cbt.probs[b][j][1] * (cbt.n_samples + 1) >= k * cbt.probs[b][j][2]
                 THEN 1 ELSE 0])

\* r is the aggregate over the batches of the metric at candidate k
CbtIsAggregate(r, k) ==
    LET B == 1..Len(cbt.y_gt) IN
    IF cbt.optimize = "batch_mean"
    THEN RMul(r, RInt(Len(cbt.y_gt))) = SeqSum([b \in B |-> CbtBatchValue(b, k)])
    ELSE /\ \E b \in B : CbtBatchValue(b, k) = r
         /\ \A b \in B : RLe(CbtBatchValue(b, k), r)

\* v[i] is better than v[j] under the criteria
CbtBetter(v, i, j) ==
    IF cbt.metric_criteria = "max" THEN RLt(v[j], v[i]) ELSE RLt(v[i], v[j])

\* C1: with optimize batch_mean or batch_max the values are the per-threshold
\* mean (or maximum) over the batches, the returned threshold is the candidate
\* at the first index where the aggregate is maximal (max) or minimal (min),
\* and the returned value is the aggregate at that threshold.
C1_FirstExtremalAggregate ==
    cbt.pc = "done" =>
        LET K == 1..cbt.n_samples
            v == cbt.values
        IN  /\ Len(v) = cbt.n_samples
            /\ \A k \in K : CbtIsAggregate(v[k], k)
            /\ cbt.idx \in K
            /\ \A k \in K : ~CbtBetter(v, k, cbt.idx)
            /\ \A k \in K : k < cbt.idx => CbtBetter(v, cbt.idx, k)
            /\ cbt.ret = <<RNorm(cbt.idx, cbt.n_samples + 1), v[cbt.idx]>>

\* a call over several batches returned a tied extremum that is not the last one
C1_Witness ==
    /\ cbt.pc = "done"
    /\ Len(cbt.y_gt) > 1
    /\ \E k \in 1..cbt.n_samples : k > cbt.idx /\ cbt.values[k] = cbt.values[cbt.idx]
    /\ \E k \in 1..cbt.n_samples : cbt.values[k] # cbt.values[cbt.idx]
    /\ cbt.batch_values[1] # cbt.batch_values[2]

\* C2: the candidates are exactly the n_samples values k/(n_samples+1),
\* k = 1..n_samples; each candidate, and the threshold returned, lies strictly
\* between 0 and 1.
C2_CandidatesInsideUnitInterval ==
    cbt.pc # "idle" =>
        /\ Len(cbt.thresholds) = cbt.n_samples
        /\ \A k \in 1..cbt.n_samples :
              /\ cbt.thresholds[k][1] * (cbt.n_samples + 1) = k * cbt.thresholds[k][2]
              /\ RLt(RZero, cbt.thresholds[k])
              /\ RLt(cbt.thresholds[k], ROne)
        /\ cbt.pc = "done" =>
              /\ RLt(RZero, cbt.ret[1]) /\ RLt(cbt.ret[1], ROne)
              /\ \E k \in 1..cbt.n_samples : cbt.ret[1] = cbt.thresholds[k]

\* a call with several candidates returned the first or the last of them
C2_Witness ==
    /\ cbt.pc = "done"
    /\ cbt.n_samples > 1
    /\ cbt.idx \in {1, cbt.n_samples}

----------------------------------------------------------------------------
(* wfn and mapPointFeaturesToMesh.  The mesh is a row of vertices on a line *)
(* and a point is a coordinate on that line, so a distance is an integer.  *)

Vertices == 1..NumVertices

\* mesh.vertices: the position of each vertex
VertexPos(v) == 4 * (v - 1)

Dist(p, v) == Abs(p - VertexPos(v))

\* mesh.verticesInBall(p, t): the vertices within distance t of p
verticesInBall(p, t) == {v \in Vertices : Dist(p, v) <= t}

\* mesh.nearestVertex(p): the vertices no other vertex is nearer to p than
nearestVertex(p) == {v \in Vertices : \A u \in Vertices : Dist(p, v) <= Dist(p, u)}

\* np.clip(x, lo, hi); nan stays nan
clip(x, lo, hi) ==
    IF ~IsFinite(x) THEN (IF x[1] > 0 THEN hi ELSE IF x[1] < 0 THEN lo ELSE x)
    ELSE IF RLt(x, lo) THEN lo
    ELSE IF RLt(hi, x) THEN hi
    ELSE x

WeightMethods == {"inverse_distance", "linear", "binary"}

\* weight 0 in place of np.ones
wfnBinaryZero(dist, cutoff, offset, weight_method, minw, maxw) ==
    IF weight_method = "binary" THEN RZero ELSE ROne

\* wfn, lines 13-24, for one distance and a weight_method wfn knows
wfn(dist, cutoff, offset, weight_method, minw, maxw) ==
    LET u == RDiv(RInt(cutoff - dist + offset), RInt(cutoff)) IN
    IF weight_method = "inverse_distance"
    THEN LET b == RDiv(maxw, RSub(minw, maxw))
             a == RMul(minw, b)
         IN  clip(RDiv(a, RAdd(u, b)), minw, maxw)
    ELSE IF weight_method = "linear"
    THEN LET b == minw
             a == RSub(maxw, minw)
         IN  clip(RAdd(RMul(a, u), b), minw, maxw)
    ELSE ROne

\* wfn, lines 9-10 and 25-26: the error wfn raises, "" when it raises none
wfnRaises(weight_method, minw, maxw) ==
    IF ~RLt(minw, maxw) THEN "ValueError"
    ELSE IF weight_method \notin WeightMethods THEN "ValueError"
    ELSE ""

\* adds w*f to the row of every vertex
AddOuterEverywhere(X, v, w, f) ==
    LET any == CHOOSE x \in v : TRUE IN
    [u \in Vertices |-> [k \in 1..Len(f) |-> RAdd(X[u][k], RMul(w[any], RInt(f[k])))]]

\* X[v] += np.outer(w, f)
AddOuter(X, v, w, f) ==
    [u \in Vertices |->
        IF u \in v THEN [k \in 1..Len(f) |-> RAdd(X[u][k], RMul(w[u], RInt(f[k])))]
        ELSE X[u]]

\* W[v] += w
AddWeights(W, v, w) == [u \in Vertices |-> IF u \in v THEN RAdd(W[u], w[u]) ELSE W[u]]

\* leaves the zero weights in place
KeepZeroWeights(W, wi) == W

\* W[wi] = 1.0
SetZeroWeights(W, wi) == [u \in Vertices |-> IF wi[u] THEN ROne ELSE W[u]]

\* X /= W.reshape(-1, 1)
ScaleByWeights(X, W) ==
    [u \in Vertices |-> [k \in 1..Len(X[u]) |-> RDiv(X[u][k], W[u])]]

\* the assertion holds whatever the lengths
LengthsAlwaysAgree(n_points, n_features, n_offset) == TRUE

\* assert len(points) == len(features) and len(points) == len(offset)
LengthsAgree(n_points, n_features, n_offset) ==
    n_points = n_features /\ n_points = n_offset

\* a feature vector has one component (features.shape[1])
FeatureVectors == {<<1>>, <<2>>}
Offsets == {0, 1}
Cutoffs == {1, 2}
MapTo == {"neighborhood", "nearest", "voronoi"}
WeightMethodArgs == WeightMethods \cup {"gaussian"}
\* **kwargs: the defaults minw=0.5, maxw=1.0, or minw=maxw=1
WeightKwargs == {<<RNorm(1, 2), ROne>>, <<ROne, ROne>>}
Lengths == 0..MaxPoints

ZeroRow == <<RZero>>

\* lines 31-38: allocate X and W, default the offset, assert equal lengths
MpfCall ==
    /\ mpf.pc = "idle"
    /\ \E n_points \in Lengths, n_features \in Lengths, offset_none \in BOOLEAN,
          n_offset_arg \in Lengths, cutoff \in Cutoffs, map_to \in MapTo,
          weight_method \in WeightMethodArgs, kw \in WeightKwargs :
        LET n_offset == IF offset_none THEN n_points ELSE n_offset_arg
            frame == [pc |-> "loop", n_points |-> n_points,
                      n_features |-> n_features, n_offset |-> n_offset,
                      offset_none |-> offset_none, distance_cutoff |-> cutoff,
                      map_to |-> map_to, weight_method |-> weight_method,
                      minw |-> kw[1], maxw |-> kw[2],
                      X |-> [u \in Vertices |-> ZeroRow],
                      W |-> [u \in Vertices |-> RZero],
                      i |-> 1, p |-> 0, f |-> <<0>>, o |-> 0, v |-> {},
                      w |-> [u \in Vertices |-> RZero],
                      wi |-> [u \in Vertices |-> FALSE],
                      accumulated |-> 0, raised |-> "", returned |-> FALSE]
        IN  /\ offset_none => n_offset_arg = 0
            /\ mpf' = IF LengthsAgree(n_points, n_features, n_offset) THEN frame
                      ELSE [frame EXCEPT !.pc = "error", !.raised = "AssertionError"]
    /\ UNCHANGED <<cbt, mut, cp, rn, tm, mono>>

\* lines 40-59: one iteration of the loop over the points
MpfPoint ==
    /\ mpf.pc = "loop"
    /\ mpf.i <= mpf.n_points
    /\ IF mpf.i > mpf.n_features \/ mpf.i > mpf.n_offset
       THEN mpf' = [mpf EXCEPT !.pc = "error", !.raised = "IndexError"]
       ELSE \E p \in 0..MaxCoord, f \in FeatureVectors,
               o \in (IF mpf.offset_none THEN {0} ELSE Offsets) :
            LET here == [mpf EXCEPT !.p = p, !.f = f, !.o = o] IN
            IF mpf.map_to \notin {"neighborhood", "nearest"}
            THEN mpf' = [here EXCEPT !.pc = "error", !.raised = "ValueError"]
            ELSE \E v \in (IF mpf.map_to = "neighborhood"
                           THEN {verticesInBall(p, mpf.distance_cutoff + o)}
                           ELSE {{n} : n \in nearestVertex(p)}) :
                 IF v = {}
                 THEN mpf' = [here EXCEPT !.v = v, !.i = @ + 1]
                 ELSE IF wfnRaises(mpf.weight_method, mpf.minw, mpf.maxw) # ""
                 THEN mpf' = [here EXCEPT !.v = v, !.pc = "error",
                                !.raised = wfnRaises(mpf.weight_method, mpf.minw, mpf.maxw)]
                 ELSE LET w == [u \in Vertices |->
                                  IF u \in v
                                  THEN wfn(Dist(p, u), mpf.distance_cutoff, o,
                                           mpf.weight_method, mpf.minw, mpf.maxw)
                                  ELSE RZero]
                      IN  mpf' = [here EXCEPT !.v = v, !.w = w,
                                    !.X = AddOuter(mpf.X, v, w, f),
                                    !.W = AddWeights(mpf.W, v, w),
                                    !.accumulated = @ + 1,
                                    !.i = @ + 1]
    /\ UNCHANGED <<cbt, mut, cp, rn, tm, mono>>

\* lines 61-71: replace the zero weights, scale by the weights, return X
MpfNormalize ==
    /\ mpf.pc = "loop"
    /\ mpf.i > mpf.n_points
    /\ LET wi == [u \in Vertices |-> mpf.W[u] = RZero]
           W == SetZeroWeights(mpf.W, wi)
       IN  mpf' = [mpf EXCEPT !.pc = "done", !.wi = wi, !.W = W,
                     !.X = ScaleByWeights(mpf.X, W), !.returned = TRUE]
    /\ UNCHANGED <<cbt, mut, cp, rn, tm, mono>>

NextMesh == MpfCall \/ MpfPoint \/ MpfNormalize

SpecMesh == Init /\ [][NextMesh]_vars

\* a step of the loop that mapped one point and raised nothing
MpfMappedPoint == mpf.pc = "loop" /\ mpf'.pc = "loop" /\ mpf'.i = mpf.i + 1

\* the step added wt*f to X and wt to W at vertex n and changed no other vertex
MpfContributesOnlyTo(n, wt) ==
    /\ mpf'.X[n] = [k \in 1..Len(mpf'.f) |-> RAdd(mpf.X[n][k], RMul(wt, RInt(mpf'.f[k])))]
    /\ mpf'.W[n] = RAdd(mpf.W[n], wt)
    /\ \A u \in Vertices \ {n} : mpf'.X[u] = mpf.X[u] /\ mpf'.W[u] = mpf.W[u]

\* C3 as claimed: with map_to='nearest' each point adds its feature vector with
\* weight 1 to exactly one vertex and nothing to any other vertex, for every
\* weight_method.
C3_NearestWeightOne ==
    [][(MpfMappedPoint /\ mpf.map_to = "nearest") =>
          \E n \in Vertices : MpfContributesOnlyTo(n, ROne)]_vars

\* C3 as amended: with map_to='nearest' each point adds w*feature to X and w to
\* W at exactly one vertex, a vertex nearest to the point, and nothing at any
\* other vertex; w is 1 for weight_method 'binary' and lies in [minw, maxw]
\* for 'inverse_distance' and 'linear'.
C3_NearestSingleVertex ==
    [][(MpfMappedPoint /\ mpf.map_to = "nearest") =>
          \E n \in Vertices :
             /\ \A u \in Vertices : Abs(mpf'.p - 4 * (n - 1)) <= Abs(mpf'.p - 4 * (u - 1))
             /\ RLe(mpf.minw, mpf'.w[n]) /\ RLe(mpf'.w[n], mpf.maxw)
             /\ mpf.weight_method = "binary" => mpf'.w[n] = ROne
             /\ MpfContributesOnlyTo(n, mpf'.w[n])]_vars

\* two points were mapped to the same nearest vertex, the second one with a
\* weight below 1
C3_Witness ==
    /\ mpf.pc = "loop"
    /\ mpf.map_to = "nearest"
    /\ mpf.accumulated = 2
    /\ \E n \in Vertices :
          /\ mpf.v = {n}
          /\ RLt(mpf.w[n], ROne)
          /\ RLt(mpf.w[n], mpf.W[n])
          /\ \A u \in Vertices \ {n} : mpf.W[u] = RZero

\* C4: the normalization leaves every vertex whose accumulated weight is zero
\* with W = 1 and a zero feature row, and divides by no zero: every weight
\* it divides by is non-zero and every entry of X is a finite number.
C4_ZeroWeightVerticesStayZero ==
    [][(mpf.pc = "loop" /\ mpf'.pc = "done") =>
          \A u \in Vertices :
             /\ mpf.W[u] = RZero => (mpf'.W[u] = ROne /\ mpf'.X[u] = ZeroRow)
             /\ mpf.W[u] # RZero => mpf'.W[u] = mpf.W[u]
             /\ mpf'.W[u] # RZero /\ IsFinite(mpf'.W[u])
             /\ \A k \in 1..Len(mpf'.X[u]) : IsFinite(mpf'.X[u][k])]_vars

\* a call returned with a vertex that got no weight and a vertex that did
C4_Witness ==
    /\ mpf.pc = "done"
    /\ mpf.accumulated > 0
    /\ \E u \in Vertices : mpf.wi[u] /\ mpf.X[u] = ZeroRow
    /\ \E u \in Vertices : ~mpf.wi[u] /\ mpf.X[u] # ZeroRow

\* C5: a call whose points, features and offset differ in length fails with
\* an error before any feature is accumulated and returns no matrix.
C5_LengthMismatchFails ==
    (mpf.pc # "idle" /\ ~(mpf.n_points = mpf.n_features /\ mpf.n_points = mpf.n_offset)) =>
        /\ mpf.pc = "error"
        /\ mpf.raised # ""
        /\ mpf.accumulated = 0
        /\ \A u \in Vertices : mpf.X[u] = ZeroRow /\ mpf.W[u] = RZero
        /\ ~mpf.returned

\* a call with points and a shorter offset failed on the assertion
C5_Witness ==
    /\ mpf.pc = "error"
    /\ mpf.raised = "AssertionError"
    /\ mpf.n_points = mpf.n_features
    /\ mpf.n_points > mpf.n_offset
    /\ mpf.map_to = "neighborhood"

\* C6: a call whose map_to or weight_method is not a supported value never
\* returns a feature matrix.
C6_UnsupportedOptionFails ==
    (mpf.pc # "idle" /\ (mpf.map_to \notin {"neighborhood", "nearest"}
                          \/ mpf.weight_method \notin {"inverse_distance", "linear", "binary"})) =>
        ~mpf.returned

----------------------------------------------------------------------------
(* ResidueMutator.  A residue is a record: its name, its id <<hetero flag,  *)
(* sequence number>>, the names of its atoms and the conformation chi of   *)
(* its side chain.                                                         *)

\* data.standard_residues
standard_residues == {"ALA", "GLY", "CYS"}

\* data.chem_components: the catalog entry of each residue name it knows;
\* parent is "" when the entry has no '_chem_comp.mon_nstd_parent_comp_id'
Component(heavy, sc, mc, parent) ==
    [heavy_atom_count |-> heavy, side_chain_atoms |-> sc,
     main_chain_atoms |-> mc, parent |-> parent]

BackboneAtoms == {"N", "CA", "C", "O", "OXT"}

chem_components(water_heavy_atom_count) ==
    [n \in {"ALA", "GLY", "CYS", "DAL", "DPR", "HOH", "SO4", "LIG"} |->
        CASE n = "ALA" -> Component(6, {"CB"}, BackboneAtoms, "")
          [] n = "GLY" -> Component(5, {}, BackboneAtoms, "")
          [] n = "CYS" -> Component(7, {"CB", "SG"}, BackboneAtoms, "")
          [] n = "DAL" -> Component(6, {"CB"}, BackboneAtoms, "ALA")
          [] n = "DPR" -> Component(6, {"CB"}, BackboneAtoms, "DAL")
          [] n = "HOH" -> Component(water_heavy_atom_count, {}, {}, "")
          [] n = "SO4" -> Component(5, {}, {}, "")
          [] n = "LIG" -> Component(3, {}, {}, "")]

\* the catalog the mutator was built with (data.chem_components)
components == chem_components(1)

\* the id of the middle residue of a tripeptide, structure[0][" "][2]
TripeptideId == <<" ", 2>>

Conformer(resn, atoms, chi) ==
    [resname |-> resn, id |-> TripeptideId, atoms |-> atoms, chi |-> chi]

\* self.candidates, built from data.tripeptides: one conformer per model
candidates ==
    [n \in {"ALA", "GLY"} |->
        IF n = "ALA"
        THEN <<Conformer("ALA", {"N", "CA", "C", "O", "CB", "H"}, 0),
               Conformer("ALA", {"N", "CA", "C", "O", "CB", "H"}, 1)>>
        ELSE <<Conformer("GLY", {"N", "CA", "C", "O", "H"}, 0)>>]

\* ResidueMutator.standard
standard(resname) == resname \in standard_residues

\* ResidueMutator.modified
modified(resname) ==
    IF resname \in standard_residues THEN FALSE
    ELSE IF resname \in DOMAIN components /\ components[resname].parent # ""
    THEN resname \notin standard_residues
         /\ components[resname].parent \in standard_residues
    ELSE FALSE

\* atom.element != "H"
IsHeavy(atom) == atom \notin {"H", "H1", "H2"}

\* stripHydrogens
stripHydrogens(atoms) == {a \in atoms : IsHeavy(a)}

NoResidue == [resname |-> "", id |-> <<"", 0>>, atoms |-> {}, chi |-> 0]

\* mutate, lines 56-69: resolve the standard parent of the residue
MutResolve(residue) ==
    LET resn == residue.resname IN
    IF standard(resn)
    THEN IF resn \notin DOMAIN candidates THEN [out |-> "False", parn |-> resn]
         ELSE [out |-> "ok", parn |-> resn]
    ELSE IF resn \notin DOMAIN components \/ components[resn].parent = ""
    THEN [out |-> "KeyError", parn |-> ""]
    ELSE IF ~standard(components[resn].parent)
    THEN [out |-> "False", parn |-> components[resn].parent]
    ELSE IF components[resn].parent \notin DOMAIN candidates
    THEN [out |-> "False", parn |-> components[resn].parent]
    ELSE [out |-> "ok", parn |-> components[resn].parent]

\* mutate, lines 71-79: the shared side-chain atoms the residue has
MutAtomList(residue, parn) ==
    LET sc_fixed == components[residue.resname].side_chain_atoms
        sc_movin == components[parn].side_chain_atoms
        atom_names == sc_fixed \cap sc_movin
    IN  {atom \in atom_names : atom \in residue.atoms}

\* self.imposer.get_rms() after fitting the candidate onto the residue
Rms(residue, candidate) == Abs(residue.chi - candidate.chi)

\* mutate, lines 89-104: the index of the first candidate of least rms
RECURSIVE MutFitScan(_, _, _, _)
MutFitScan(residue, cands, j, best) ==
    IF j > Len(cands) THEN best
    ELSE MutFitScan(residue, cands, j + 1,
                    IF best = 0 \/ Rms(residue, cands[j]) < Rms(residue, cands[best])
                    THEN j ELSE best)

\* mutate, lines 106-121: copy the candidate, strip its hydrogens, take over
\* the backbone atoms the residue has
MutBuild(residue, min_candidate) ==
    LET backbone_atoms == components[residue.resname].main_chain_atoms IN
    [min_candidate EXCEPT
        !.atoms = stripHydrogens(@) \cup (backbone_atoms \cap residue.atoms)]

\* ResidueMutator.mutate: "Residue" with the replacement, "False", or the
\* error raised
mutate(residue) ==
    LET r == MutResolve(residue) IN
    IF r.out # "ok" THEN [kind |-> r.out, res |-> NoResidue]
    ELSE IF MutAtomList(residue, r.parn) = {} THEN [kind |-> "False", res |-> NoResidue]
    ELSE LET cands == candidates[r.parn]
             best == MutFitScan(residue, cands, 1, 0)
         IN  [kind |-> "Residue", res |-> MutBuild(residue, cands[best])]

\* the residues mutate is called with
MutNames == {"ALA", "GLY", "CYS", "DAL", "DPR", "HOH", "SO4", "LIG", "XXX"}
MutAtomSets == {{}, {"CA"}, {"CB"}, {"N", "CA", "C", "O"}, {"N", "CA", "CB", "H"},
                {"N", "CA", "C", "O", "CB", "OXT"}}
MutIds == {<<" ", 1>>, <<"H", 7>>}

\* mutate is called with a residue; lines 56-69
MutCall ==
    /\ mut.pc = "idle"
    /\ \E resn \in MutNames, atoms \in MutAtomSets, id \in MutIds, chi \in {0, 1} :
        LET residue == [resname |-> resn, id |-> id, atoms |-> atoms, chi |-> chi]
            r == MutResolve(residue)
            frame == [pc |-> "atoms", residue |-> residue, parn |-> r.parn,
                      atom_list |-> {}, min_candidate |-> NoResidue,
                      ret |-> NoResidue, returned |-> "", raised |-> ""]
        IN  mut' = IF r.out = "ok" THEN frame
                   ELSE IF r.out = "False"
                   THEN [frame EXCEPT !.pc = "done", !.returned = "False"]
                   ELSE [frame EXCEPT !.pc = "error", !.raised = r.out]
    /\ UNCHANGED <<cbt, mpf, cp, rn, tm, mono>>

\* lines 71-82: collect the side-chain atoms to fit on
MutSelectAtoms ==
    /\ mut.pc = "atoms"
    /\ LET atom_list == MutAtomList(mut.residue, mut.parn) IN
       mut' = IF atom_list = {}
              THEN [mut EXCEPT !.pc = "done", !.returned = "False"]
              ELSE [mut EXCEPT !.pc = "fit", !.atom_list = atom_list]
    /\ UNCHANGED <<cbt, mpf, cp, rn, tm, mono>>

\* lines 84-104: fit every candidate and keep the best one
MutFit ==
    /\ mut.pc = "fit"
    /\ LET cands == candidates[mut.parn] IN
       mut' = [mut EXCEPT !.pc = "build",
                 !.min_candidate = cands[MutFitScan(mut.residue, cands, 1, 0)]]
    /\ UNCHANGED <<cbt, mpf, cp, rn, tm, mono>>

\* lines 106-121: build and return the replacement
MutReturn ==
    /\ mut.pc = "build"
    /\ mut' = [mut EXCEPT !.pc = "done", !.returned = "Residue",
                 !.ret = MutBuild(mut.residue, mut.min_candidate)]
    /\ UNCHANGED <<cbt, mpf, cp, rn, tm, mono>>

NextMutate == MutCall \/ MutSelectAtoms \/ MutFit \/ MutReturn

SpecMutate == Init /\ [][NextMutate]_vars

\* C7: mutate never raises: every call, whatever the residue, ends by
\* returning a replacement residue or false; it returns false when the
\* resolved parent has no candidate conformers and when the residue has none
\* of the side-chain atoms it shares with the parent.
C7_MutateNeverRaises ==
    /\ mut.pc # "error"
    /\ mut.pc = "done" =>
          /\ mut.returned \in {"Residue", "False"}
          /\ mut.parn \notin DOMAIN candidates => mut.returned = "False"
          /\ mut.returned = "Residue" =>
                \E atom \in mut.residue.atoms :
                   /\ atom \in components[mut.residue.resname].side_chain_atoms
                   /\ atom \in components[mut.parn].side_chain_atoms

----------------------------------------------------------------------------
(* cleanProtein, on a structure of one chain, "A".  A chain is its ordered *)
(* child_list and its child_dict, the set of the residues it finds by id.  *)
(* The options hydrogens, replace_hydrogens, add_charge_radius and         *)
(* remove_numerical_chain_id keep their defaults.                          *)

\* heavyAtomCount
heavyAtomCount(residue) == Cardinality({atom \in residue.atoms : IsHeavy(atom)})

\* regexes["SOLVENT_COMPONENTS"].search(resn)
SolventComponents == {"SO4"}

\* lines 210-227: what the triage does with one residue
Triage(residue, catalog) ==
    LET resn == residue.resname
        resid == residue.id
    IN  IF resn \notin DOMAIN catalog THEN "KeyError"
        ELSE IF catalog[resn].heavy_atom_count - 1 = 0 THEN "ZeroDivisionError"
        ELSE IF RLt(RNorm(heavyAtomCount(residue), catalog[resn].heavy_atom_count - 1),
                    RNorm(3, 5))
        THEN "replace"
        ELSE IF standard(resn)
        THEN IF resid[1] = " " THEN "continue"
             ELSE "removed HETATM standard residue: %s"
        ELSE IF resn = "HOH" \/ resn = "WAT" THEN "None"
        ELSE IF resn \in SolventComponents THEN "continue"
        ELSE IF modified(resn) THEN "replace"
        ELSE "removed unrecognized residue: %s"

\* chain[rid]
ChainGet(chain, rid) == CHOOSE res \in chain.child_dict : res.id = rid

\* chain.detach_child(rid)
detach_child(chain, rid) ==
    [child_list |-> SelectSeq(chain.child_list, LAMBDA res : res # ChainGet(chain, rid)),
     child_dict |-> {res \in chain.child_dict : res.id # rid}]

\* idx = chain.child_list.index(chain[rid]); chain.child_list[idx] = replacement
ReplaceInList(chain, rid, replacement) ==
    LET idx == CHOOSE k \in 1..Len(chain.child_list) :
                  /\ chain.child_list[k] = ChainGet(chain, rid)
                  /\ \A j \in 1..(k - 1) : chain.child_list[j] # ChainGet(chain, rid)
    IN  [chain EXCEPT !.child_list[idx] = replacement]

\* the residues a structure is built from: name, hetero flag, atoms, chi
Kind(resn, flag, atoms, chi) == [resname |-> resn, flag |-> flag, atoms |-> atoms, chi |-> chi]

ResidueKinds ==
    {Kind("ALA", " ", {"N", "CA", "C", "O", "CB", "OXT"}, 0),
     Kind("ALA", " ", {"N", "CA"}, 0),
     Kind("ALA", "H", {"N", "CA", "C", "O", "CB", "OXT"}, 0),
     Kind("DAL", "H", {"N", "CA", "C", "O", "CB"}, 1),
     Kind("HOH", "W", {"O", "H1", "H2"}, 0),
     Kind("SO4", "H", {"S", "O1", "O2", "O3", "O4"}, 0),
     Kind("LIG", "H", {"C1", "C2"}, 0),
     Kind("LIG", "H", {"C1"}, 0),
     Kind("XXX", "H", {"C1"}, 0)}

\* the chain built from a sequence of kinds: the k-th residue has number k
BuildChain(kinds) ==
    LET res(k) == [resname |-> kinds[k].resname, id |-> <<kinds[k].flag, k>>,
                   atoms |-> kinds[k].atoms, chi |-> kinds[k].chi]
    IN  [child_list |-> [k \in 1..Len(kinds) |-> res(k)],
         child_dict |-> {res(k) : k \in 1..Len(kinds)}]

\* heavy_atom_count of HOH in data.chem_components: 1 counts the oxygen, 2
\* is the least value with which the triage passes a water on to its name test
WaterHeavyAtomCounts == {1, 2}

Methods == {"geobind", "pdbfixer"}

\* the next loop of lines 206-245 with work left, or the step after them
CpAdvance(frame) ==
    [frame EXCEPT !.pc =
        IF frame.r <= Len(frame.residues) THEN "triage"
        ELSE IF frame.remove_i <= Len(frame.remove) THEN "remove"
        ELSE IF frame.replace_i <= Len(frame.replace) THEN "replace"
        ELSE "pdb2pqr"]

CpRaise(frame, error) == [frame EXCEPT !.pc = "error", !.raised = error]

\* lines 151-204: the call
CpCall ==
    /\ cp.pc = "idle"
    /\ \E kinds \in SeqsUpTo(ResidueKinds, MaxResidues), method \in Methods,
          quiet \in BOOLEAN, pdb2pqr \in BOOLEAN, keepPQR \in BOOLEAN,
          water \in WaterHeavyAtomCounts, stale \in BOOLEAN :
        LET chain == BuildChain(kinds)
            frame == [pc |-> "triage", method |-> method, quiet |-> quiet,
                      pdb2pqr |-> pdb2pqr, keepPQR |-> keepPQR,
                      water_heavy_atom_count |-> water,
                      input |-> chain.child_list, chain |-> chain,
                      residues |-> chain.child_list, r |-> 1,
                      replace |-> <<>>, remove |-> <<>>,
                      remove_i |-> 1, replace_i |-> 1, log |-> <<>>,
                      fs |-> IF stale THEN {"pqrFile"} ELSE {},
                      pqr |-> IF stale THEN "earlier run" ELSE "",
                      charges |-> "",
                      written |-> {}, raised |-> "", returned |-> ""]
        IN  cp' = IF method = "geobind" THEN frame
                  ELSE [frame EXCEPT !.pc = "pdbfixer"]
    /\ UNCHANGED <<cbt, mpf, mut, rn, tm, mono>>

\* lines 209-227: the triage of one residue of the chain
CpTriage ==
    /\ cp.pc = "triage"
    /\ LET residue == cp.residues[cp.r]
           resid == residue.id
           what == Triage(residue, chem_components(cp.water_heavy_atom_count))
           next == [cp EXCEPT !.r = @ + 1]
       IN  cp' = IF what \in {"KeyError", "ZeroDivisionError"} THEN CpRaise(cp, what)
                 ELSE IF what = "replace"
                 THEN CpAdvance([next EXCEPT !.replace = Append(@, resid)])
                 ELSE IF what = "continue" THEN CpAdvance(next)
                 ELSE CpAdvance([next EXCEPT !.remove = Append(@, <<resid, what>>)])
    /\ UNCHANGED <<cbt, mpf, mut, rn, tm, mono>>

\* lines 229-232: remove one residue, logging the reason if there is one
CpRemove ==
    /\ cp.pc = "remove"
    /\ LET rid == cp.remove[cp.remove_i][1]
           reason == cp.remove[cp.remove_i][2]
           entry == [msg |-> reason, resname |-> ChainGet(cp.chain, rid).resname]
       IN  cp' = CpAdvance([cp EXCEPT
                   !.log = IF reason # "None" /\ ~cp.quiet THEN Append(@, entry) ELSE @,
                   !.chain = detach_child(cp.chain, rid),
                   !.remove_i = @ + 1])
    /\ UNCHANGED <<cbt, mpf, mut, rn, tm, mono>>

\* lines 234-245: replace one residue by its mutation, or remove it
CpReplace ==
    /\ cp.pc = "replace"
    /\ LET rid == cp.replace[cp.replace_i]
           old == ChainGet(cp.chain, rid)
           replacement == mutate(old)
           next == [cp EXCEPT !.replace_i = @ + 1]
       IN  cp' = IF replacement.kind \notin {"Residue", "False"}
                 THEN CpRaise(cp, replacement.kind)
                 ELSE IF replacement.kind = "Residue"
                 THEN CpAdvance([next EXCEPT
                        !.log = IF ~cp.quiet
                                THEN Append(@, [msg |-> "replacing residue %s with %s",
                                                resname |-> old.resname])
                                ELSE @,
                        !.chain = ReplaceInList(cp.chain, rid,
                                                [replacement.res EXCEPT !.id = rid])])
                 ELSE CpAdvance([next EXCEPT
                        !.log = IF ~cp.quiet
                                THEN Append(@, [msg |-> "could not perform replacement on %s, removing",
                                                resname |-> old.resname])
                                ELSE @,
                        !.chain = detach_child(cp.chain, rid)])
    /\ UNCHANGED <<cbt, mpf, mut, rn, tm, mono>>

\* what PDBFixer leaves of a chain: the standard residues, the modified ones
\* as their parents, no heterogens
FixerOutput(child_list) ==
    LET fixed == [k \in 1..Len(child_list) |->
                    IF modified(child_list[k].resname)
                    THEN [child_list[k] EXCEPT !.resname = components[@].parent,
                                               !.id = <<" ", child_list[k].id[2]>>]
                    ELSE child_list[k]]
        kept == SelectSeq(fixed, LAMBDA res : standard(res.resname) /\ res.id[1] = " ")
    IN  [child_list |-> kept, child_dict |-> {kept[k] : k \in 1..Len(kept)}]

\* lines 247-255: import pdbfixer and openmm, save the structure to tmpFile1
CpFixerSave ==
    /\ cp.pc = "pdbfixer"
    /\ \/ cp' = CpRaise(cp, "ModuleNotFoundError")
       \/ cp' = [cp EXCEPT !.pc = "pdbfixer_run",
                   !.fs = @ \cup {"tmpFile1"}, !.written = @ \cup {"tmpFile1"}]
    /\ UNCHANGED <<cbt, mpf, mut, rn, tm, mono>>

\* lines 257-267: run PDBFixer and write its result to tmpFile2
CpFixerRun ==
    /\ cp.pc = "pdbfixer_run"
    /\ \/ cp' = CpRaise(cp, "PDBFixerError")
       \/ cp' = [cp EXCEPT !.pc = "pdbfixer_load",
                   !.fs = @ \cup {"tmpFile2"}, !.written = @ \cup {"tmpFile2"}]
    /\ UNCHANGED <<cbt, mpf, mut, rn, tm, mono>>

\* lines 269-274: load the fixed structure and remove both files
CpFixerLoad ==
    /\ cp.pc = "pdbfixer_load"
    /\ \/ cp' = CpRaise(cp, "ParseError")
       \/ cp' = [cp EXCEPT !.pc = "pdb2pqr",
                   !.chain = FixerOutput(cp.chain.child_list),
                   !.fs = @ \ {"tmpFile1", "tmpFile2"}]
    /\ UNCHANGED <<cbt, mpf, mut, rn, tm, mono>>

\* the chain as parsed back from a file written from child_list
Reparsed(chain) ==
    [child_list |-> chain.child_list,
     child_dict |-> {chain.child_list[k] : k \in 1..Len(chain.child_list)}]

\* lines 277-285: write the structure to tmpFile
CpWritePdb ==
    /\ cp.pc = "pdb2pqr"
    /\ cp.pdb2pqr
    /\ cp' = [cp EXCEPT !.pc = "run_pdb2pqr",
                !.fs = @ \cup {"tmpFile"}, !.written = @ \cup {"tmpFile"}]
    /\ UNCHANGED <<cbt, mpf, mut, rn, tm, mono>>

\* lines 287-299: run PDB2PQR, which writes pqrFile or fails and writes nothing
CpRunPdb2pqr ==
    /\ cp.pc = "run_pdb2pqr"
    /\ \/ cp' = [cp EXCEPT !.pc = "read_pqr", !.pqr = "this run",
                   !.fs = @ \cup {"pqrFile"}, !.written = @ \cup {"pqrFile"}]
       \/ cp' = [cp EXCEPT !.pc = "read_pqr"]
    /\ UNCHANGED <<cbt, mpf, mut, rn, tm, mono>>

\* lines 301-329: read the structure, the charges and the radii from pqrFile,
\* then remove tmpFile and, unless keepPQR, pqrFile
CpReadPqr ==
    /\ cp.pc = "read_pqr"
    /\ IF "pqrFile" \notin cp.fs
       THEN cp' = CpRaise(cp, "FileNotFoundError")
       ELSE \/ cp' = CpRaise(cp, "ValueError")
            \/ cp' = [cp EXCEPT !.pc = "return",
                        !.chain = Reparsed(cp.chain),
                        !.charges = cp.pqr,
                        !.fs = IF ~cp.keepPQR THEN @ \ {"tmpFile", "pqrFile"}
                               ELSE @ \ {"tmpFile"}]
    /\ UNCHANGED <<cbt, mpf, mut, rn, tm, mono>>

\* lines 331-339: return the structure, with pqrFile if it was kept
CpReturn ==
    /\ \/ cp.pc = "return"
       \/ cp.pc = "pdb2pqr" /\ ~cp.pdb2pqr
    /\ cp' = [cp EXCEPT !.pc = "done",
                !.returned = IF cp.pdb2pqr /\ cp.keepPQR THEN "structure, pqrFile"
                             ELSE "structure"]
    /\ UNCHANGED <<cbt, mpf, mut, rn, tm, mono>>

NextClean ==
    \/ CpCall \/ CpTriage \/ CpRemove \/ CpReplace
    \/ CpFixerSave \/ CpFixerRun \/ CpFixerLoad
    \/ CpWritePdb \/ CpRunPdb2pqr \/ CpReadPqr \/ CpReturn

SpecClean == Init /\ [][NextClean]_vars

\* the decision the priority list of the triage gives a residue
CpRuleDecision(residue, catalog) ==
    LET resn == residue.resname
        expected == IF resn \in DOMAIN catalog THEN catalog[resn].heavy_atom_count - 1 ELSE 0
        observed == Cardinality(residue.atoms \ {"H", "H1", "H2"})
    IN  IF expected > 0 /\ 5 * observed < 3 * expected THEN "repair"
        ELSE IF resn \in standard_residues
        THEN IF residue.id[1] = " " THEN "keep" ELSE "remove, logged"
        ELSE IF resn \in {"HOH", "WAT"} THEN "remove"
        ELSE IF resn \in SolventComponents THEN "keep"
        ELSE IF resn \in DOMAIN catalog /\ catalog[resn].parent \in standard_residues
        THEN "repair"
        ELSE "remove, unrecognized"

\* the decision the triage recorded for a residue it has been through
CpRecorded(residue) ==
    LET inReplace == \E k \in 1..Len(cp.replace) : cp.replace[k] = residue.id
        removals == {k \in 1..Len(cp.remove) : cp.remove[k][1] = residue.id}
    IN  IF inReplace /\ removals = {} THEN {"repair"}
        ELSE IF ~inReplace /\ removals = {} THEN {"keep"}
        ELSE IF inReplace THEN {"repair", "remove"}
        ELSE {IF cp.remove[k][2] = "None" THEN "remove"
              ELSE IF cp.remove[k][2] = "removed unrecognized residue: %s"
              THEN "remove, unrecognized"
              ELSE "remove, logged" : k \in removals}

\* C8: the triage gives every residue exactly one decision, the first rule
\* of its priority list that matches, and raises no error on any residue.
C8_TriageFirstMatchingRule ==
    (cp.pc # "idle" /\ cp.method = "geobind") =>
        /\ ~(cp.pc = "error" /\ cp.r <= Len(cp.residues))
        /\ \A k \in 1..(cp.r - 1) :
              CpRecorded(cp.residues[k]) =
                 {CpRuleDecision(cp.residues[k], chem_components(cp.water_heavy_atom_count))}

\* C9: cleaning a structure with a water HOH in chain A with the default
\* options returns a structure with no HOH in chain A and logs the removal.
C9_WaterRemovedAndLogged ==
    (/\ cp.pc = "done"
     /\ cp.method = "geobind" /\ ~cp.quiet /\ cp.pdb2pqr /\ cp.keepPQR
     /\ \E k \in 1..Len(cp.input) : cp.input[k].resname = "HOH") =>
        /\ \A k \in 1..Len(cp.chain.child_list) : cp.chain.child_list[k].resname # "HOH"
        /\ \E k \in 1..Len(cp.log) : cp.log[k].resname = "HOH"

\* C10: when keepPQR is false no file the call wrote exists once it has ended,
\* by a return or by an error.
C10_NoTransientFileLeft ==
    (cp.pc \in {"done", "error"} /\ ~cp.keepPQR) => cp.written \cap cp.fs = {}

\* the protonation step ran and PDB2PQR wrote no output for this call
CpNoProduct ==
    /\ cp.pc \in {"read_pqr", "return", "done", "error"}
    /\ cp.pdb2pqr /\ "tmpFile" \in cp.written /\ cp.pqr # "this run"

\* C11: with the protonation step on, a call whose PDB2PQR run produces no
\* output fails and returns no structure, whether or not a file pqrFile was
\* there before the call; the charges and radii of a returned structure come
\* from the output of this call's run.
C11_NoProductFailsAndChargesAreFresh ==
    /\ CpNoProduct => cp.pc \in {"read_pqr", "error"} /\ cp.returned = ""
    /\ cp.pc # "idle" => cp.charges \in {"", "this run"}

----------------------------------------------------------------------------
(* cleanProtein with remove_numerical_chain_id: lines 170-196.  A chain id *)
(* and a tracked residue identifier are sequences of characters.  The      *)
(* chains of one model of a structure have distinct ids; get_chains goes   *)
(* through the chains of every model.                                      *)

\* at most this many chains of a structure have a numeric id
MaxNumeric == 2

\* list("ABCDEFGHIJKLMNOPQRSTUVWXYZabcdefghijklmnopqrstuvwxyz")
Alphabet ==
    <<"A", "B", "C", "D", "E", "F", "G", "H", "I", "J", "K", "L", "M",
      "N", "O", "P", "Q", "R", "S", "T", "U", "V", "W", "X", "Y", "Z",
      "a", "b", "c", "d", "e", "f", "g", "h", "i", "j", "k", "l", "m",
      "n", "o", "p", "q", "r", "s", "t", "u", "v", "w", "x", "y", "z">>

Digits == {"0", "1", "2", "3", "4", "5", "6", "7", "8", "9"}

\* cid.isnumeric()
isnumeric(cid) == Len(cid) > 0 /\ \A k \in 1..Len(cid) : cid[k] \in Digits

\* a taken test that finds no id taken
IsTakenNever(new_id, taken_ids) == FALSE

\* new_id in taken_ids
IsTaken(new_id, taken_ids) == <<new_id>> \in taken_ids

\* lines 184-189: pop letters off the end of available_ids until one is not
\* taken or none is left; new_id keeps the last letter popped
RECURSIVE PopLoop(_, _, _)
PopLoop(available_ids, taken_ids, new_id) ==
    IF Len(available_ids) = 0
    THEN [available_ids |-> available_ids, new_id |-> new_id]
    ELSE LET popped == available_ids[Len(available_ids)]
             rest == SubSeq(available_ids, 1, Len(available_ids) - 1)
         IN  IF IsTaken(popped, taken_ids)
             THEN PopLoop(rest, taken_ids, popped)
             ELSE [available_ids |-> rest, new_id |-> popped]

\* re.sub('^%s' % cid, new_id, rid), cid being digits only
re_sub(cid, new_id, rid) ==
    IF Len(rid) >= Len(cid) /\ SubSeq(rid, 1, Len(cid)) = cid
    THEN <<new_id>> \o SubSeq(rid, Len(cid) + 1, Len(rid))
    ELSE rid

\* lines 193-196: rewrite every identifier of a non-empty binding_site_ids
RewriteTracked(binding_site_ids, cid, new_id) ==
    IF Len(binding_site_ids) > 0
    THEN [i \in 1..Len(binding_site_ids) |-> re_sub(cid, new_id, binding_site_ids[i])]
    ELSE binding_site_ids

\* the numeric chain ids of the structures
NumericIds == {<<"1">>, <<"2">>, <<"1", "2">>}

\* the letters that are chain ids of a structure: a few, or all but a few
LetterSets ==
    {{}, {"A"}, {"z"}} \cup
    {{Alphabet[k] : k \in 1..Len(Alphabet)} \ free : free \in SUBSET {"A", "z"}}

\* the sequences without repetition of at most n elements of S
InjectiveSeqs(S, n) ==
    {q \in SeqsUpTo(S, n) : \A j, k \in 1..Len(q) : j # k => q[j] # q[k]}

\* the tracked identifiers: a chain id, a separator and a residue number
TrackedIds == {cid \o <<".", "5">> : cid \in NumericIds \cup {<<"A">>}}

\* binding_site_ids: None or empty, one identifier, or those of chains 1 and 12
TrackedLists ==
    {<<>>} \cup {<<rid>> : rid \in TrackedIds}
           \cup {<<<<"1", ".", "5">>, <<"1", "2", ".", "5">>>>}

\* lines 168-178: the call; taken_ids is the set of the chain ids.  The
\* chains with a numeric id are in the model of the others or in a model of
\* their own.  Chain.id is a plain attribute in one Biopython and, in
\* another, a property whose setter raises ValueError when a chain of the
\* same model has the id.
RnCall ==
    /\ rn.pc = "idle"
    /\ \E letters \in LetterSets, numeric \in InjectiveSeqs(NumericIds, MaxNumeric),
          numericFirst \in BOOLEAN, binding_site_ids \in TrackedLists,
          checked \in BOOLEAN, apart \in BOOLEAN :
        LET lettered == SelectSeq(Alphabet, LAMBDA ch : ch \in letters)
            ids == [k \in 1..Len(lettered) |-> <<lettered[k]>>]
            chains == IF numericFirst THEN numeric \o ids ELSE ids \o numeric
        IN  rn' = [pc |-> IF Len(chains) = 0 THEN "done" ELSE "chains",
                   chains |-> chains, before |-> chains,
                   model |-> [k \in 1..Len(chains) |->
                                IF apart /\ isnumeric(chains[k]) THEN 1 ELSE 0],
                   binding_site_ids |-> binding_site_ids, tracked |-> binding_site_ids,
                   available_ids |-> Alphabet,
                   taken_ids |-> {chains[k] : k \in 1..Len(chains)},
                   c |-> 1, new_id |-> "", checked |-> checked, raised |-> ""]
    /\ UNCHANGED <<cbt, mpf, mut, cp, tm, mono>>

\* lines 181-196: one chain of the loop
RnChain ==
    /\ rn.pc = "chains"
    /\ LET cid == rn.chains[rn.c]
           popped == PopLoop(rn.available_ids, rn.taken_ids, rn.new_id)
           new_id == popped.new_id
           sibling == \E k \in 1..Len(rn.chains) :
                         /\ k # rn.c /\ rn.model[k] = rn.model[rn.c]
                         /\ rn.chains[k] = <<new_id>>
           next == [rn EXCEPT !.c = @ + 1,
                              !.pc = IF rn.c + 1 > Len(rn.chains) THEN "done" ELSE "chains"]
       IN  rn' = IF ~isnumeric(cid) THEN next
                 ELSE IF new_id = ""
                 THEN [rn EXCEPT !.pc = "error", !.raised = "UnboundLocalError"]
                 ELSE IF rn.checked /\ sibling
                 THEN [rn EXCEPT !.pc = "error", !.raised = "ValueError",
                                 !.available_ids = popped.available_ids,
                                 !.new_id = new_id]
                 ELSE [next EXCEPT
                         !.available_ids = popped.available_ids,
                         !.new_id = new_id,
                         !.chains[rn.c] = <<new_id>>,
                         !.binding_site_ids = RewriteTracked(@, cid, new_id)]
    /\ UNCHANGED <<cbt, mpf, mut, cp, tm, mono>>

NextRenumber == RnCall \/ RnChain

SpecRenumber == Init /\ [][NextRenumber]_vars

\* the chains with a numeric id, and the letters of the pool that are no
\* chain's id, before the renaming
RnNumeric == {k \in 1..Len(rn.before) : isnumeric(rn.before[k])}
RnSpare == {k \in 1..Len(Alphabet) : \A j \in 1..Len(rn.before) : rn.before[j] # <<Alphabet[k]>>}

\* chain k has a new id, which is a letter that was no chain's id and is
\* the id of no other chain
RnFreshlyNamed(k) ==
    /\ \E j \in 1..Len(Alphabet) : rn.chains[k] = <<Alphabet[j]>>
    /\ \A j \in 1..Len(rn.before) : rn.before[j] # rn.chains[k]
    /\ \A j \in 1..Len(rn.chains) : j # k => rn.chains[j] # rn.chains[k]

\* C12: with more numeric chain ids than spare letters the call fails; no
\* chain is given a letter in use or a letter given before, and no numeric
\* chain keeps its id when the call goes on normally.
C12_ExhaustedPoolFails ==
    rn.pc # "idle" =>
        /\ Cardinality(RnNumeric) > Cardinality(RnSpare) => rn.pc # "done"
        /\ \A k \in 1..Len(rn.chains) : rn.chains[k] # rn.before[k] => RnFreshlyNamed(k)
        /\ rn.pc = "done" => \A k \in 1..Len(rn.chains) : ~isnumeric(rn.chains[k])

\* C13: with at least as many spare letters as numeric chain ids the loop
\* ends without error, and then no chain has a numeric id, every renamed
\* chain has a letter that was no chain's id and that no other chain has,
\* and the chains with a non-numeric id keep it.
C13_RenamingIsFresh ==
    (rn.pc # "idle" /\ Cardinality(RnNumeric) <= Cardinality(RnSpare)) =>
        /\ rn.pc # "error"
        /\ rn.pc = "done" =>
              \A k \in 1..Len(rn.chains) :
                 /\ ~isnumeric(rn.chains[k])
                 /\ isnumeric(rn.before[k]) => RnFreshlyNamed(k)
                 /\ ~isnumeric(rn.before[k]) => rn.chains[k] = rn.before[k]

\* two numeric chains were renamed, past a letter of the pool that was taken
C13_Witness ==
    /\ rn.pc = "done"
    /\ Cardinality(RnNumeric) = 2
    /\ Cardinality(RnNumeric) <= Cardinality(RnSpare)
    /\ <<"z">> \in rn.taken_ids
    /\ \A k \in RnNumeric : rn.chains[k] # rn.before[k]

\* the chain id a tracked identifier begins with, and what follows it
RidChain(rid) == SubSeq(rid, 1, Len(rid) - 2)
RidRest(rid) == SubSeq(rid, Len(rid) - 1, Len(rid))

\* C14: after the renaming a tracked identifier of a renamed chain has the
\* chain's new id and the same rest, and a tracked identifier of any other
\* chain is as it was.
C14_TrackedIdsFollowTheirChain ==
    rn.pc = "done" =>
        \A i \in 1..Len(rn.tracked) :
           LET renamed == {k \in RnNumeric : rn.before[k] = RidChain(rn.tracked[i])}
           IN  IF renamed # {}
               THEN \A k \in renamed :
                       rn.binding_site_ids[i] = rn.chains[k] \o RidRest(rn.tracked[i])
               ELSE rn.binding_site_ids[i] = rn.tracked[i]

----------------------------------------------------------------------------
(* The training script, bin/train_model.py: the configuration C, the       *)
(* checkpoint cadence, the model, optimizer and scheduler selected by      *)
(* name, and the call of Trainer.train.  The Trainer is not part of the    *)
(* script; its epoch loop is modelled as far as it writes checkpoints.     *)

\* epochs ranges over 0..MaxEpochs
MaxEpochs == 3
\* checkpoint_every ranges over -1..MaxEvery
MaxEvery == 4

\* a Python value that is False or an int
PyFalse == [isFalse |-> TRUE, n |-> 0]
PyInt(n) == [isFalse |-> FALSE, n |-> n]

\* a resolution that leaves C["checkpoint_every"] as configured
KeepCheckpoint(checkpoint_every, epochs, debug) == PyInt(checkpoint_every)

\* lines 179-183: C["checkpoint_every"] after "Set checkpoint values"
SetCheckpoint(checkpoint_every, epochs, debug) ==
    IF checkpoint_every = 0 \/ checkpoint_every > epochs THEN PyInt(epochs)
    ELSE IF checkpoint_every < 0 \/ debug THEN PyFalse
    ELSE PyInt(checkpoint_every)

\* the names the script has a branch for
ModelBranches == {"NetConvPool", "PointNetPP", "MultiBranchNet", "FFNet"}
OptimizerBranches == {"adam", "sgd"}
SchedulerBranches == {"ReduceLROnPlateau", "ExponentialLR", "OneCycleLR"}

\* the names a configuration file may hold
ModelNames == ModelBranches \cup {"GCN"}
OptimizerNames == OptimizerBranches \cup {"rmsprop"}
SchedulerNames == SchedulerBranches \cup {"StepLR"}

TmRaise(frame, error, line) == [frame EXCEPT !.pc = "error", !.raised = error, !.line = line]

\* lines 104-130: the configuration is loaded
TmConfig ==
    /\ tm.pc = "idle"
    /\ \E checkpoint_every \in -1..MaxEvery, epochs \in 0..MaxEpochs, debug \in BOOLEAN,
          model \in ModelNames, optimizer \in OptimizerNames, scheduler \in SchedulerNames :
        tm' = [pc |-> "checkpoint",
               config |-> [checkpoint_every |-> checkpoint_every, epochs |-> epochs,
                           debug |-> debug, model |-> model, optimizer |-> optimizer,
                           scheduler |-> scheduler],
               checkpoint_every |-> PyInt(checkpoint_every),
               model |-> "unbound", optimizer |-> "unbound", scheduler |-> "unbound",
               passed |-> PyFalse, epoch |-> 0, checkpoints |-> <<>>,
               raised |-> "", line |-> 0]
    /\ UNCHANGED <<cbt, mpf, mut, cp, rn, mono>>

\* lines 179-183: set checkpoint values
TmSetCheckpoint ==
    /\ tm.pc = "checkpoint"
    /\ tm' = [tm EXCEPT !.pc = "model",
                !.checkpoint_every = SetCheckpoint(tm.config.checkpoint_every,
                                                   tm.config.epochs, tm.config.debug)]
    /\ UNCHANGED <<cbt, mpf, mut, cp, rn, mono>>

\* lines 232-249: create the model; line 247 reads model, bound or not
TmCreateModel ==
    /\ tm.pc = "model"
    /\ tm' = IF tm.config.model \in ModelBranches
             THEN [tm EXCEPT !.pc = "optimizer", !.model = tm.config.model]
             ELSE TmRaise(tm, "NameError", 247)
    /\ UNCHANGED <<cbt, mpf, mut, cp, rn, mono>>

\* lines 264-270: the optimizer; no branch for the name leaves it unbound
TmOptimizer ==
    /\ tm.pc = "optimizer"
    /\ tm' = [tm EXCEPT !.pc = "scheduler",
                !.optimizer = IF tm.config.optimizer \in OptimizerBranches
                              THEN tm.config.optimizer ELSE "unbound"]
    /\ UNCHANGED <<cbt, mpf, mut, cp, rn, mono>>

\* lines 272-282: the scheduler; each branch reads optimizer, the else
\* branch sets scheduler to None
TmScheduler ==
    /\ tm.pc = "scheduler"
    /\ tm' = IF tm.config.scheduler \in SchedulerBranches
             THEN IF tm.optimizer = "unbound"
                  THEN TmRaise(tm, "NameError", 273)
                  ELSE [tm EXCEPT !.pc = "trainer", !.scheduler = tm.config.scheduler]
             ELSE [tm EXCEPT !.pc = "trainer", !.scheduler = "None"]
    /\ UNCHANGED <<cbt, mpf, mut, cp, rn, mono>>

\* lines 289-294: the Evaluator and the Trainer, which is passed optimizer
TmTrainer ==
    /\ tm.pc = "trainer"
    /\ tm' = IF tm.optimizer = "unbound"
             THEN TmRaise(tm, "NameError", 290)
             ELSE [tm EXCEPT !.pc = "train"]
    /\ UNCHANGED <<cbt, mpf, mut, cp, rn, mono>>

\* lines 313-322: trainer.train(C["epochs"], ..., checkpoint_every=C["checkpoint_every"])
TmTrain ==
    /\ tm.pc = "train"
    /\ tm' = [tm EXCEPT !.pc = IF tm.config.epochs > 0 THEN "epoch" ELSE "done",
                        !.passed = tm.checkpoint_every]
    /\ UNCHANGED <<cbt, mpf, mut, cp, rn, mono>>

\* a checkpoint is due after the epoch-th epoch of a run
CheckpointDue(checkpoint_every, epoch) ==
    /\ ~checkpoint_every.isFalse
    /\ checkpoint_every.n > 0
    /\ epoch % checkpoint_every.n = 0

\* Trainer.train: one epoch, then a checkpoint every checkpoint_every epochs
TmEpoch ==
    /\ tm.pc = "epoch"
    /\ LET epoch == tm.epoch + 1
       IN  tm' = [tm EXCEPT !.epoch = epoch,
                            !.checkpoints = IF CheckpointDue(tm.passed, epoch)
                                            THEN Append(@, epoch) ELSE @,
                            !.pc = IF epoch = tm.config.epochs THEN "done" ELSE "epoch"]
    /\ UNCHANGED <<cbt, mpf, mut, cp, rn, mono>>

NextTrain ==
    \/ TmConfig \/ TmSetCheckpoint \/ TmCreateModel \/ TmOptimizer
    \/ TmScheduler \/ TmTrainer \/ TmTrain \/ TmEpoch

SpecTrain == Init /\ [][NextTrain]_vars

\* Trainer.train has been called
TmTraining == tm.pc \in {"epoch", "done"}

\* C15: when checkpoint_every is negative or debug is on, the cadence passed
\* to Trainer.train is the disabled value, whatever checkpoint_every and
\* epochs are.
C15_NegativeOrDebugDisables ==
    (TmTraining /\ (tm.config.checkpoint_every < 0 \/ tm.config.debug)) =>
        (tm.passed.isFalse \/ tm.passed.n = 0)

C17_UnrecognizedNameFails ==
    TmTraining =>
        /\ tm.config.model \in ModelBranches
        /\ tm.config.optimizer \in OptimizerBranches
        /\ tm.config.scheduler \in SchedulerBranches

----------------------------------------------------------------------------
(* chooseBinaryThreshold as a function of its arguments, called twice on   *)
(* the same y_gt and probs with two sampling resolutions.                  *)

\* an index choice that minimizes whatever the criterion
BestIndexMin(metric_criteria, values) == argmin(values)

\* lines 44-47: idx
BestIndex(metric_criteria, values) ==
    IF metric_criteria = "max" THEN argmax(values) ELSE argmin(values)

\* lines 19-49, for a non-empty list of batches: <<thresholds[idx], values[idx]>>
chooseBinaryThreshold(y_gt, probs, fn, metric_criteria, n_samples, optimize) ==
    LET thresholds == Thresholds(n_samples)
        batch_values == [i \in 1..Len(y_gt) |-> MapM(fn, y_gt[i], probs[i], thresholds)]
        values == IF optimize = "batch_mean" THEN MeanAxis0(batch_values)
                  ELSE MaxAxis0(batch_values)
        idx == BestIndex(metric_criteria, values)
    IN  <<thresholds[idx], values[idx]>>

\* arrays of two samples, with probabilities in fifths
MonoYArrays == {<<a, b>> : a, b \in Labels}
MonoPArrays == {<<RNorm(a, 5), RNorm(b, 5)>> : a, b \in 1..4}

\* the arguments of the two calls
MonoCall ==
    /\ mono.pc = "idle"
    /\ \E y \in MonoYArrays, p \in MonoPArrays, fn \in MetricFns, crit \in Criteria,
          opt \in Optimize, n1 \in 1..MaxSamples, n2 \in 1..MaxSamples :
        /\ n1 < n2
        /\ mono' = [pc |-> "first", y_gt |-> <<y>>, probs |-> <<p>>, metric_fn |-> fn,
                    metric_criteria |-> crit, optimize |-> opt,
                    n1 |-> n1, n2 |-> n2, ret1 |-> <<>>, ret2 |-> <<>>]
    /\ UNCHANGED <<cbt, mpf, mut, cp, rn, tm>>

\* the call with n_samples = n1
MonoFirst ==
    /\ mono.pc = "first"
    /\ mono' = [mono EXCEPT !.pc = "second",
                  !.ret1 = chooseBinaryThreshold(mono.y_gt, mono.probs, mono.metric_fn,
                                                 mono.metric_criteria, mono.n1, mono.optimize)]
    /\ UNCHANGED <<cbt, mpf, mut, cp, rn, tm>>

\* the call with n_samples = n2
MonoSecond ==
    /\ mono.pc = "second"
    /\ mono' = [mono EXCEPT !.pc = "done",
                  !.ret2 = chooseBinaryThreshold(mono.y_gt, mono.probs, mono.metric_fn,
                                                 mono.metric_criteria, mono.n2, mono.optimize)]
    /\ UNCHANGED <<cbt, mpf, mut, cp, rn, tm>>

NextMonotone == MonoCall \/ MonoFirst \/ MonoSecond

SpecMonotone == Init /\ [][NextMonotone]_vars

\* C18 as stated: with metric_criteria = 'max', for any n1 < n2 the value
\* returned with n_samples = n2 is at least the value returned with n1.
C18_MoreSamplesNeverWorse ==
    (mono.pc = "done" /\ mono.metric_criteria = "max") =>
        RLe(mono.ret1[2], mono.ret2[2])

\* every candidate of the coarser sampling is a candidate of the finer one
MonoNested == (mono.n2 + 1) % (mono.n1 + 1) = 0

\* C18: with metric_criteria = 'max' and n1 < n2 such that n1 + 1 divides
\* n2 + 1, the value returned with n_samples = n2 is at least the value
\* returned with n_samples = n1.
C18_NestedSamplesNeverWorse ==
    (mono.pc = "done" /\ mono.metric_criteria = "max" /\ MonoNested) =>
        RLe(mono.ret1[2], mono.ret2[2])

\* a finer nested sampling found a strictly better value
C18_Witness ==
    /\ mono.pc = "done" /\ mono.metric_criteria = "max" /\ MonoNested
    /\ RLt(mono.ret1[2], mono.ret2[2])

----------------------------------------------------------------------------
(* cleanProtein, method 'geobind': the chain after the removal and the     *)
(* replacement passes, lines 229-245.                                      *)

\* the removal and replacement passes over the chain are done
CpPassesDone == cp.pc = "pdb2pqr" /\ cp.method = "geobind"

\* what the passes are to leave of the k-th residue of the chain: itself
\* if it was kept, its mutation under its own id if it was marked for
\* repair and mutate gave one, else nothing
CpLeft(k) ==
    LET residue == cp.input[k]
        removed == \E j \in 1..Len(cp.remove) : cp.remove[j][1] = residue.id
        marked == \E j \in 1..Len(cp.replace) : cp.replace[j] = residue.id
    IN  IF removed THEN <<>>
        ELSE IF ~marked THEN <<residue>>
        ELSE IF mutate(residue).kind = "Residue"
        THEN <<[mutate(residue).res EXCEPT !.id = residue.id]>>
        ELSE <<>>

RECURSIVE CpLeftFrom(_)
CpLeftFrom(k) == IF k > Len(cp.input) THEN <<>> ELSE CpLeft(k) \o CpLeftFrom(k + 1)

\* C19: after the removal and replacement passes the ordered residue list
\* of the chain holds, in their original order, the kept residues and the
\* successful replacements, each replacement in the place and under the id
\* of the residue it replaced, no residue whose repair failed, and the
\* chain finds by id exactly the residues of its list.
C19_TwoPhaseApply ==
    CpPassesDone =>
        /\ cp.chain.child_list = CpLeftFrom(1)
        /\ cp.chain.child_dict =
              {cp.chain.child_list[k] : k \in 1..Len(cp.chain.child_list)}

====
